---- MODULE Spec2Model ----
(***************************************************************************)
(* Place classification, scoring, activity filtering, result ranking and   *)
(* time-window recommendation of src/main.py.                              *)
(*                                                                         *)
(* Conventions                                                             *)
(*   - Python None is the string None ("<None>"); a tag that is absent     *)
(*     from the tag dictionary has the value None (what tags.get returns). *)
(*   - The tri-state is_paid / is_free values are "True", "False", None.   *)
(*   - distance_km is held in hundredths of a kilometre, the score before  *)
(*     rounding in hundredths of a point and the value score_feature       *)
(*     returns (one decimal) in tenths of a point.                         *)
(*   - road_distance_m is in metres, NoRoad (-1) standing for None.        *)
(*   - a datetime of the series' calendar day is its hour (0..24).         *)
(***************************************************************************)
EXTENDS Integers, Sequences, FiniteSets, TLC

VARIABLES pc, tags, feat, active, distance_km, road_distance_m, score,
          hourly, risks, good_mask, windows,
          activity_set, tri_map, passes,
          places, toggles, features,
          idx, db, last_call, calls

vars == <<pc, tags, feat, active, distance_km, road_distance_m, score,
          hourly, risks, good_mask, windows,
          activity_set, tri_map, passes,
          places, toggles, features,
          idx, db, last_call, calls>>

None == "<None>"

\* road_distance_m is None (no road data)
NoRoad == -1

\* the tables of the database after init_db, with the AUTOINCREMENT counters
EmptyDb ==
  [groups |-> {}, group_members |-> {}, outings |-> {}, rsvps |-> {},
   posts |-> {}, comments |-> {},
   seq |-> [groups |-> 0, outings |-> 0, posts |-> 0, comments |-> 0]]

(***************************************************************************)
(* Bounds                                                                  *)
(***************************************************************************)
\* a tag dictionary holds at most MaxTags of the keys the code reads
MaxTags == 3
\* at most MaxActive sensitivities are selected when a place is scored
MaxActive == 2
\* distances from the origin are 0..MaxDistSteps steps of DistStep (in 1/100 km)
MaxDistSteps == 3
DistStep == 687
\* an hourly series of the day has at most MaxSegments stretches of constant weather
MaxSegments == 2
\* the largest UV index of a single hourly record
MaxUvi == 11
\* at most MaxFiltered activity chips are not neutral
MaxFiltered == 2
\* a search returns at most MaxPlaces places, with at most MaxToggles toggles set
MaxPlaces == 3
MaxToggles == 1
\* contiguous_windows is run on masks of at most MaxMaskLen hours
MaxMaskLen == 8
\* at most MaxClicks chips are clicked in a session
MaxClicks == 3
\* the six tables of the database hold at most MaxRows rows, taken together
MaxRows == 5
\* at most MaxRsvpCalls RSVP buttons are pressed
MaxRsvpCalls == 3

RECURSIVE SubsetsUpTo(_, _)
SubsetsUpTo(U, k) ==
  IF k = 0 THEN {{}}
  ELSE LET prev == SubsetsUpTo(U, k - 1)
       IN  prev \cup {x \cup {y} : x \in prev, y \in U}

(***************************************************************************)
(* Tag dictionaries                                                        *)
(***************************************************************************)
TagKeys ==
  {"amenity", "leisure", "man_made", "tourism", "highway", "shop",
   "attraction", "garden", "garden:type", "indoor", "covered", "surface",
   "tracktype", "wheelchair", "access", "name", "fee"}

\* the values a present tag takes: every value the code compares against,
\* plus values it does not recognise (and the empty string)
TagVals(k) ==
  CASE k = "amenity"     -> {"community_centre", "marketplace", "arts_centre", "cafe"}
    [] k = "leisure"     -> {"swimming_pool", "park", "playground", "fitness_station",
                             "track", "pitch", "recreation_ground", "ice_rink",
                             "sports_centre", "garden", "dog_park", ""}
    [] k = "man_made"    -> {"pier", "tower"}
    [] k = "tourism"     -> {"beach", "museum", "attraction", "hotel"}
    [] k = "highway"     -> {"cycleway", "footway"}
    [] k = "shop"        -> {"farm", "bakery"}
    [] k = "attraction"  -> {"farm", "animal_park", "botanical_garden", "maze"}
    [] k = "garden"      -> {"botanical", "arboretum", "rose"}
    [] k = "garden:type" -> {"botanical", "residential"}
    [] k = "indoor"      -> {"yes", "no"}
    [] k = "covered"     -> {"yes"}
    [] k = "surface"     -> {"asphalt", "wood", "grass"}
    [] k = "tracktype"   -> {"grade1", "grade2"}
    [] k = "wheelchair"  -> {"yes", "no"}
    [] k = "access"      -> {"yes", "public", "private", "Yes"}
    [] k = "name"        -> {"Riverside"}
    [] k = "fee"         -> {"yes", "no", "Yes", "donation"}

EmptyTags == [k \in TagKeys |-> None]

RECURSIVE MapsOver(_)
MapsOver(S) ==
  IF S = {} THEN {EmptyTags}
  ELSE LET k == CHOOSE x \in S : TRUE
       IN  {[m EXCEPT ![k] = v] : m \in MapsOver(S \ {k}), v \in TagVals(k)}

\* the tags that decide the kind, and the most of them one rule of the ladder reads
CategoryKeys ==
  {"amenity", "leisure", "man_made", "tourism", "highway", "shop",
   "attraction", "garden", "garden:type"}

RuleTags == 2

CategoryMaps == UNION {MapsOver(S) : S \in SubsetsUpTo(CategoryKeys, RuleTags)}

\* str.lower() on the tag values of the model
lower(s) ==
  CASE s = "Yes" -> "yes"
    [] OTHER     -> s

\* variant of Truthy: only None is falsy, the empty string counts as a value
Truthy_not_none(v) == v # None

\* Python truthiness of tags.get(k): None and "" are falsy
Truthy(v) == v # None /\ v # ""

\* (tags.get(k) or "")
OrEmpty(v) == IF Truthy(v) THEN v ELSE ""

(***************************************************************************)
(* classify_feature                                                        *)
(***************************************************************************)
PavedSurfaces == {"paved", "asphalt", "concrete", "paving_stones", "wood"}

\* locals of classify_feature before the if / elif ladder
base_attrs(t) ==
  [kind |-> None, indoor |-> FALSE, shaded_possible |-> FALSE,
   waterfront |-> FALSE, pollen_risk |-> "medium",
   paved |-> (t["surface"] \in PavedSurfaces \/ t["tracktype"] = "grade1")]

\* variant of low_if: the pollen risk stays "medium" whether indoor or not
low_if_always_medium(indoor) == "medium"

\* "low" if indoor else "medium"
low_if(indoor) == IF indoor THEN "low" ELSE "medium"

\* variant of fallback_kind: the chain of raw tag values lost its "Public place" default
fallback_kind_nodefault(t) ==
  IF Truthy(t["leisure"]) THEN t["leisure"]
  ELSE IF Truthy(t["amenity"]) THEN t["amenity"]
  ELSE IF Truthy(t["tourism"]) THEN t["tourism"]
  ELSE t["man_made"]

\* the else branch: first truthy raw tag value, or "Public place"
fallback_kind(t) ==
  IF Truthy(t["leisure"]) THEN t["leisure"]
  ELSE IF Truthy(t["amenity"]) THEN t["amenity"]
  ELSE IF Truthy(t["tourism"]) THEN t["tourism"]
  ELSE IF Truthy(t["man_made"]) THEN t["man_made"]
  ELSE "Public place"

\* the ladder from the cycleway rule down to the else branch
kind_ladder_tail(t, b) ==
  IF t["highway"] = "cycleway" THEN
    [b EXCEPT !.kind = "Cycleway / greenway", !.pollen_risk = "medium", !.paved = TRUE]
  ELSE IF t["tourism"] = "museum" THEN
    [b EXCEPT !.kind = "Museum", !.indoor = TRUE, !.pollen_risk = "low"]
  ELSE IF t["amenity"] = "marketplace" THEN
    [b EXCEPT !.kind = "Marketplace", !.pollen_risk = "medium"]
  ELSE IF t["amenity"] = "arts_centre" THEN
    [b EXCEPT !.kind = "Arts centre", !.indoor = TRUE, !.pollen_risk = "low"]
  ELSE IF t["tourism"] = "attraction"
          /\ t["attraction"] \in {"farm", "animal_park", "botanical_garden"} THEN
    [b EXCEPT !.kind = IF t["attraction"] = "farm" THEN "Farm (attraction)"
                       ELSE IF t["attraction"] = "botanical_garden" THEN "Botanical garden"
                       ELSE "Animal park"]
  ELSE IF t["leisure"] = "garden"
          /\ (t["garden"] \in {"botanical", "arboretum"}
              \/ t["garden:type"] \in {"botanical", "arboretum"}) THEN
    [b EXCEPT !.kind = "Botanical garden"]
  ELSE IF t["shop"] = "farm" THEN
    [b EXCEPT !.kind = "Farm shop"]
  ELSE
    [b EXCEPT !.kind = fallback_kind(t)]

\* the ladder from the pier / beach rule down
kind_ladder_mid(t, b) ==
  IF t["man_made"] = "pier" \/ t["tourism"] = "beach" THEN
    [b EXCEPT !.kind = "Boardwalk / beach / pier", !.waterfront = TRUE,
              !.pollen_risk = "low", !.paved = TRUE]
  ELSE IF t["leisure"] = "pitch" THEN
    [b EXCEPT !.kind = "Open sports field", !.pollen_risk = "higher"]
  ELSE IF t["leisure"] = "recreation_ground" THEN
    [b EXCEPT !.kind = "Recreation ground", !.pollen_risk = "medium"]
  ELSE IF t["leisure"] = "ice_rink" THEN
    [b EXCEPT !.kind = "Ice rink", !.indoor = (t["indoor"] = "yes"),
              !.pollen_risk = low_if(t["indoor"] = "yes")]
  ELSE IF t["leisure"] = "sports_centre" THEN
    [b EXCEPT !.kind = "Sports centre",
              !.indoor = (t["indoor"] = "yes" \/ t["covered"] = "yes"),
              !.pollen_risk = low_if(t["indoor"] = "yes" \/ t["covered"] = "yes")]
  ELSE kind_ladder_tail(t, b)

\* variant of kind_ladder: the park rule is tested before the community-centre rule
kind_ladder_park_first(t, b) ==
  IF t["leisure"] = "park" THEN
    [b EXCEPT !.kind = "Park", !.shaded_possible = TRUE, !.pollen_risk = "higher"]
  ELSE IF t["amenity"] = "community_centre" THEN
    [b EXCEPT !.kind = "Community center", !.indoor = TRUE, !.pollen_risk = "low"]
  ELSE IF t["leisure"] = "swimming_pool" THEN
    [b EXCEPT !.kind = "Swimming (pool)",
              !.indoor = (t["indoor"] = "yes" \/ t["covered"] = "yes"),
              !.pollen_risk = low_if(t["indoor"] = "yes" \/ t["covered"] = "yes")]
  ELSE IF t["leisure"] = "playground" THEN
    [b EXCEPT !.kind = "Playground / fitness area", !.shaded_possible = TRUE,
              !.pollen_risk = "higher"]
  ELSE IF t["leisure"] = "fitness_station" THEN
    [b EXCEPT !.kind = "Outdoor fitness station", !.shaded_possible = TRUE,
              !.pollen_risk = "higher"]
  ELSE IF t["leisure"] = "track" THEN
    [b EXCEPT !.kind = "Running track", !.pollen_risk = "medium", !.paved = TRUE]
  ELSE kind_ladder_mid(t, b)

\* the whole if / elif ladder: the first rule that holds decides
kind_ladder(t, b) ==
  IF t["amenity"] = "community_centre" THEN
    [b EXCEPT !.kind = "Community center", !.indoor = TRUE, !.pollen_risk = "low"]
  ELSE IF t["leisure"] = "swimming_pool" THEN
    [b EXCEPT !.kind = "Swimming (pool)",
              !.indoor = (t["indoor"] = "yes" \/ t["covered"] = "yes"),
              !.pollen_risk = low_if(t["indoor"] = "yes" \/ t["covered"] = "yes")]
  ELSE IF t["leisure"] = "park" THEN
    [b EXCEPT !.kind = "Park", !.shaded_possible = TRUE, !.pollen_risk = "higher"]
  ELSE IF t["leisure"] = "playground" THEN
    [b EXCEPT !.kind = "Playground / fitness area", !.shaded_possible = TRUE,
              !.pollen_risk = "higher"]
  ELSE IF t["leisure"] = "fitness_station" THEN
    [b EXCEPT !.kind = "Outdoor fitness station", !.shaded_possible = TRUE,
              !.pollen_risk = "higher"]
  ELSE IF t["leisure"] = "track" THEN
    [b EXCEPT !.kind = "Running track", !.pollen_risk = "medium", !.paved = TRUE]
  ELSE kind_ladder_mid(t, b)

\* variant of is_paid_of: the fee tag is compared as it is written
is_paid_of_exact(t) ==
  IF t["fee"] = "yes" THEN "True" ELSE IF t["fee"] = "no" THEN "False" ELSE None

\* is_paid and is_free, from the lower-cased fee and access tags
is_paid_of(t) ==
  LET fee_tag == lower(OrEmpty(t["fee"]))
  IN  IF fee_tag = "yes" THEN "True" ELSE IF fee_tag = "no" THEN "False" ELSE None

is_free_of(t) ==
  LET fee_tag    == lower(OrEmpty(t["fee"]))
      access_tag == lower(OrEmpty(t["access"]))
  IN  IF fee_tag = "no" \/ access_tag \in {"public", "yes"} THEN "True"
      ELSE IF fee_tag = "yes" THEN "False" ELSE None

\* variant of activities_of: an open sports field gets the label "Sports fields" only
activities_of_field_alone(kind, is_free, is_paid) ==
  (IF kind \in {"Park", "Recreation ground", "Playground / fitness area"}
     THEN {"Walking", "Hiking", "Parks", "Playgrounds", "Sports fields"} ELSE {})
  \cup (IF kind = "Open sports field" THEN {"Sports fields"} ELSE {})
  \cup (IF kind \in {"Cycleway / greenway", "Running track", "Boardwalk / beach / pier"}
     THEN {"Walking", "Running", "Cycling", "Beaches", "Tracks", "Greenways"} ELSE {})
  \cup (IF kind = "Swimming (pool)" THEN {"Swimming"} ELSE {})
  \cup (IF kind \in {"Community center", "Arts centre", "Marketplace"}
     THEN {"Community events", "Community centers"} ELSE {})
  \cup (IF kind = "Museum" THEN {"Museums"} ELSE {})
  \cup (IF kind = "Botanical garden" THEN {"Botanical gardens"} ELSE {})
  \cup (IF kind \in {"Zoo", "Animal park"} THEN {"Community events"} ELSE {})
  \cup (IF kind \in {"Farm (attraction)", "Farm shop"} THEN {"Farms"} ELSE {})
  \cup (IF kind = "Ice rink" THEN {"Ice skating"} ELSE {})
  \cup (IF is_free = "True" THEN {"Free"} ELSE {})
  \cup (IF is_paid = "True" THEN {"Paid"} ELSE {})

\* the activity labels of a kind and its fee flags
activities_of(kind, is_free, is_paid) ==
  (IF kind \in {"Park", "Recreation ground", "Open sports field", "Playground / fitness area"}
     THEN {"Walking", "Hiking", "Parks", "Playgrounds", "Sports fields"} ELSE {})
  \cup (IF kind \in {"Cycleway / greenway", "Running track", "Boardwalk / beach / pier"}
     THEN {"Walking", "Running", "Cycling", "Beaches", "Tracks", "Greenways"} ELSE {})
  \cup (IF kind = "Swimming (pool)" THEN {"Swimming"} ELSE {})
  \cup (IF kind \in {"Community center", "Arts centre", "Marketplace"}
     THEN {"Community events", "Community centers"} ELSE {})
  \cup (IF kind = "Museum" THEN {"Museums"} ELSE {})
  \cup (IF kind = "Botanical garden" THEN {"Botanical gardens"} ELSE {})
  \cup (IF kind \in {"Zoo", "Animal park"} THEN {"Community events"} ELSE {})
  \cup (IF kind \in {"Farm (attraction)", "Farm shop"} THEN {"Farms"} ELSE {})
  \cup (IF kind = "Ice rink" THEN {"Ice skating"} ELSE {})
  \cup (IF is_free = "True" THEN {"Free"} ELSE {})
  \cup (IF is_paid = "True" THEN {"Paid"} ELSE {})

\* variant of quiet_hint_of: the lower-cased access tag is tested instead of the raw one
quiet_hint_of_lowered(t) ==
  lower(OrEmpty(t["access"])) \in {"", "yes"} /\ t["name"] = None

\* quiet_hint, from the raw access and name tags
quiet_hint_of(t) == t["access"] \in {None, "yes"} /\ t["name"] = None

\* variant of classify_feature: the two fee flags reach the labels in swapped order
classify_feature_flags_swapped(t) ==
  LET c == kind_ladder(t, base_attrs(t))
  IN  [kind            |-> c.kind,
       indoor          |-> c.indoor,
       shaded_possible |-> c.shaded_possible,
       waterfront      |-> c.waterfront,
       pollen_risk     |-> c.pollen_risk,
       paved           |-> c.paved,
       wheelchair      |-> (t["wheelchair"] = "yes"),
       quiet_hint      |-> quiet_hint_of(t),
       is_paid         |-> is_paid_of(t),
       is_free         |-> is_free_of(t),
       activities      |-> activities_of(c.kind, is_paid_of(t), is_free_of(t))]

classify_feature(t) ==
  LET c == kind_ladder(t, base_attrs(t))
  IN  [kind            |-> c.kind,
       indoor          |-> c.indoor,
       shaded_possible |-> c.shaded_possible,
       waterfront      |-> c.waterfront,
       pollen_risk     |-> c.pollen_risk,
       paved           |-> c.paved,
       wheelchair      |-> (t["wheelchair"] = "yes"),
       quiet_hint      |-> quiet_hint_of(t),
       is_paid         |-> is_paid_of(t),
       is_free         |-> is_free_of(t),
       activities      |-> activities_of(c.kind, is_free_of(t), is_paid_of(t))]

(***************************************************************************)
(* score_feature                                                           *)
(***************************************************************************)
Sensitivities ==
  {"UV sensitivity", "Pollen sensitivity", "Breathing sensitivity", "Smog sensitivity",
   "Low impact", "Noise sensitivity", "Privacy", "Accessibility"}

B(cond, pts) == IF cond THEN pts ELSE 0

Max(a, b) == IF a >= b THEN a ELSE b

\* variant of base_score: the magnitude of 100 - distance_km * 8 instead of its floor
base_score_abs(d) == IF 10000 - d * 8 >= 0 THEN 10000 - d * 8 ELSE d * 8 - 10000

\* max(0, 100 - distance_km * 8), in hundredths of a point
base_score(d) == Max(0, 10000 - d * 8)

\* round(x, 1): x in hundredths, the result in tenths; a tie goes to the even tenth
round1(x) ==
  LET q == x \div 10
      r == x % 10
  IN  IF r < 5 THEN q
      ELSE IF r > 5 THEN q + 1
      ELSE IF q % 2 = 0 THEN q ELSE q + 1

uv_adj(f) ==
  B(f.indoor, 28) + B(f.shaded_possible, 12) + B(f.waterfront, 6)
  - B(f.kind \in {"Open sports field", "Running track"}, 5)

\* variant of pollen_adj: a low pollen risk earns nothing
pollen_adj_no_low(f) ==
  B(f.indoor, 26) + B(f.waterfront, 12) + B(f.pollen_risk = "higher", -18)

pollen_adj(f) ==
  B(f.indoor, 26) + B(f.waterfront, 12)
  + (IF f.pollen_risk = "higher" THEN -18 ELSE IF f.pollen_risk = "low" THEN 8 ELSE 0)

breathing_adj(f) ==
  B(f.indoor, 12) + B(f.waterfront, 8) + B(f.paved, 6)
  - B(f.kind \in {"Open sports field"}, 4)

\* variant of smog_adj: the band limits 80, 180 and 350 belong to the nearer band
smog_adj_inclusive(r) ==
  IF r # NoRoad
  THEN IF r <= 80 THEN -24 ELSE IF r <= 180 THEN -16 ELSE IF r <= 350 THEN -8 ELSE 4
  ELSE 0

smog_adj(r) ==
  IF r # NoRoad
  THEN IF r < 80 THEN -24 ELSE IF r < 180 THEN -16 ELSE IF r < 350 THEN -8 ELSE 4
  ELSE 0

\* variant of low_impact_adj: only the open sports field is penalised
low_impact_adj_field_only(f) ==
  B(f.paved, 10) + B(f.indoor, 6)
  + B(f.kind \in {"Running track", "Swimming (pool)", "Cycleway / greenway"}, 10)
  - B(f.kind \in {"Open sports field"}, 4)

low_impact_adj(f) ==
  B(f.paved, 10) + B(f.indoor, 6)
  + B(f.kind \in {"Running track", "Swimming (pool)", "Cycleway / greenway"}, 10)
  - B(f.kind \in {"Open sports field", "Playground / fitness area"}, 4)

\* variant of noise_adj: a missing road distance is banded like a distance of 0 m
noise_adj_none_as_zero(f, r) ==
  (IF r = NoRoad \/ r < 80 THEN -22 ELSE IF r < 180 THEN -12 ELSE IF r < 350 THEN -6 ELSE 6)
  + B(f.quiet_hint, 4)

noise_adj(f, r) ==
  (IF r # NoRoad
   THEN IF r < 80 THEN -22 ELSE IF r < 180 THEN -12 ELSE IF r < 350 THEN -6 ELSE 6
   ELSE 0)
  + B(f.quiet_hint, 4)

\* variant of privacy_adj: the road bonus is given from 350 m on
privacy_adj_from_350(f, r) ==
  B(r # NoRoad /\ r >= 350, 10) + B(f.quiet_hint, 6)
  - B(f.kind \in {"Boardwalk / beach / pier", "Playground / fitness area"}, 4)

privacy_adj(f, r) ==
  B(r # NoRoad /\ r > 350, 10) + B(f.quiet_hint, 6)
  - B(f.kind \in {"Boardwalk / beach / pier", "Playground / fitness area"}, 4)

accessibility_adj(f) ==
  B(f.wheelchair, 20) + B(f.paved, 8)
  + B(f.kind \in {"Community center", "Sports centre", "Swimming (pool)"}, 6)

\* variant of outdoor_bonus: the recreation ground is left out of the list
outdoor_bonus_no_recreation(f) ==
  B(f.kind \in {"Park", "Cycleway / greenway", "Running track", "Boardwalk / beach / pier",
                "Outdoor fitness station"}, 6)

outdoor_bonus(f) ==
  B(f.kind \in {"Park", "Cycleway / greenway", "Running track", "Boardwalk / beach / pier",
                "Recreation ground", "Outdoor fitness station"}, 6)

\* variant of sensitivity_adj: the Pollen block is an elif of the UV block
sensitivity_adj_elif(f, a, r) ==
    (IF "UV sensitivity" \in a THEN uv_adj(f)
     ELSE B("Pollen sensitivity" \in a, pollen_adj(f)))
  + B("Breathing sensitivity" \in a, breathing_adj(f))
  + B("Smog sensitivity" \in a, smog_adj(r))
  + B("Low impact" \in a, low_impact_adj(f))
  + B("Noise sensitivity" \in a, noise_adj(f, r))
  + B("Privacy" \in a, privacy_adj(f, r))
  + B("Accessibility" \in a, accessibility_adj(f))

\* the adjustments of the sensitivities in a, each block guarded by its own if
sensitivity_adj(f, a, r) ==
    B("UV sensitivity" \in a, uv_adj(f))
  + B("Pollen sensitivity" \in a, pollen_adj(f))
  + B("Breathing sensitivity" \in a, breathing_adj(f))
  + B("Smog sensitivity" \in a, smog_adj(r))
  + B("Low impact" \in a, low_impact_adj(f))
  + B("Noise sensitivity" \in a, noise_adj(f, r))
  + B("Privacy" \in a, privacy_adj(f, r))
  + B("Accessibility" \in a, accessibility_adj(f))

\* f: classified attributes, a: active sensitivities, d: distance in 1/100 km,
\* r: metres to the nearest major road or NoRoad; the result is in tenths
score_feature(f, a, d, r) ==
  round1(base_score(d) + 100 * (sensitivity_adj(f, a, r) + outdoor_bonus(f)))

(***************************************************************************)
(* Weather windows                                                         *)
(***************************************************************************)
uv_risk(uv) == IF uv >= 7 THEN 3 ELSE IF uv >= 4 THEN 2 ELSE 1

pollen_risk_of(rec) ==
  (IF (5 <= rec.hour /\ rec.hour <= 10) \/ (16 <= rec.hour /\ rec.hour <= 20) THEN 2 ELSE 1)
  - (IF rec.rain THEN 1 ELSE 0)

\* variant of hour_risk: Pollen and Breathing sensitivity each add the pollen term
hour_risk_each(rec, a) ==
  Max(0, B("UV sensitivity" \in a, uv_risk(rec.uvi))
         + B("Pollen sensitivity" \in a, pollen_risk_of(rec))
         + B("Breathing sensitivity" \in a, pollen_risk_of(rec)))

\* the risk of one hourly record (the body of the first loop)
hour_risk(rec, a) ==
  Max(0, B("UV sensitivity" \in a, uv_risk(rec.uvi))
         + B("Pollen sensitivity" \in a \/ "Breathing sensitivity" \in a,
             pollen_risk_of(rec)))

\* contiguous_windows: the loop from index i on, with its locals out and start
\* (start = 0 stands for None; indices are 1-based, pairs are <<s, e>>)
RECURSIVE cw_loop(_, _, _, _)
cw_loop(mask, i, out, start) ==
  IF i > Len(mask) THEN out
  ELSE LET good   == mask[i]
           start1 == IF good /\ start = 0 THEN i ELSE start
           close  == (~good \/ i = Len(mask)) /\ start1 # 0
           end    == IF good THEN i ELSE i - 1
       IN  IF close THEN cw_loop(mask, i + 1, Append(out, <<start1, end>>), 0)
           ELSE cw_loop(mask, i + 1, out, start1)

\* variant of contiguous_windows: a run is closed by a bad hour only, so a run that
\* reaches the last index is dropped
RECURSIVE cw_loop_open_end(_, _, _, _)
cw_loop_open_end(mask, i, out, start) ==
  IF i > Len(mask) THEN out
  ELSE LET start1 == IF mask[i] /\ start = 0 THEN i ELSE start
       IN  IF ~mask[i] /\ start1 # 0
           THEN cw_loop_open_end(mask, i + 1, Append(out, <<start1, i - 1>>), 0)
           ELSE cw_loop_open_end(mask, i + 1, out, start1)

contiguous_windows_open_end(mask) == cw_loop_open_end(mask, 1, <<>>, 0)

\* variant of contiguous_windows: a run closed by a bad hour ends at that bad hour
RECURSIVE cw_loop_end_at_bad(_, _, _, _)
cw_loop_end_at_bad(mask, i, out, start) ==
  IF i > Len(mask) THEN out
  ELSE LET start1 == IF mask[i] /\ start = 0 THEN i ELSE start
       IN  IF (~mask[i] \/ i = Len(mask)) /\ start1 # 0
           THEN cw_loop_end_at_bad(mask, i + 1, Append(out, <<start1, i>>), 0)
           ELSE cw_loop_end_at_bad(mask, i + 1, out, start1)

contiguous_windows_end_at_bad(mask) == cw_loop_end_at_bad(mask, 1, <<>>, 0)

contiguous_windows(mask) == cw_loop(mask, 1, <<>>, 0)

AnySens(a) == "Pollen sensitivity" \in a \/ "Breathing sensitivity" \in a

\* variant of why_of: rain at any hour of the day marks every window "after rain"
why_of_any_rain(h, a, s, e) ==
  LET tag == IF \E i \in 1..Len(h) : h[i].rain THEN "lower pollen (est.) after rain"
             ELSE "lower pollen (est.)"
  IN  IF "UV sensitivity" \in a /\ AnySens(a) THEN "lower UV" \o ", " \o tag
      ELSE IF "UV sensitivity" \in a THEN "lower UV"
      ELSE IF AnySens(a) THEN tag
      ELSE "comfortable"

\* the reason string of the run s..e
why_of(h, a, s, e) ==
  LET tag == IF \E i \in s..e : h[i].rain THEN "lower pollen (est.) after rain"
             ELSE "lower pollen (est.)"
  IN  IF "UV sensitivity" \in a /\ AnySens(a) THEN "lower UV" \o ", " \o tag
      ELSE IF "UV sensitivity" \in a THEN "lower UV"
      ELSE IF AnySens(a) THEN tag
      ELSE "comfortable"

FallbackWindows ==
  << [start |-> 6,  end |-> 9,  why |-> "early morning (heuristic)"],
     [start |-> 18, end |-> 21, why |-> "evening (heuristic)"] >>

risks_of(h, a) == [i \in 1..Len(h) |-> hour_risk(h[i], a)]

\* variant of good_mask_of: an hour is good when its risk is below 2
good_mask_of_below_two(rs) == [i \in 1..Len(rs) |-> rs[i] < 2]

good_mask_of(rs) == [i \in 1..Len(rs) |-> rs[i] <= 2]

\* variant of run_windows: a window ends at the time of its last good hour
run_windows_inclusive_end(h, a, runs) ==
  [k \in 1..Len(runs) |->
     [start |-> h[runs[k][1]].hour,
      end   |-> h[runs[k][2]].hour,
      why   |-> why_of(h, a, runs[k][1], runs[k][2])]]

\* the windows of the runs (the index pairs of contiguous_windows)
run_windows(h, a, runs) ==
  [k \in 1..Len(runs) |->
     [start |-> h[runs[k][1]].hour,
      end   |-> h[runs[k][2]].hour + 1,
      why   |-> why_of(h, a, runs[k][1], runs[k][2])]]

\* variant of build_time_windows: the fallback is taken for fewer than two windows
build_time_windows_lt2(h, a) ==
  LET ws == run_windows(h, a, contiguous_windows(good_mask_of(risks_of(h, a))))
  IN  IF Len(ws) < 2 THEN FallbackWindows ELSE ws

\* variant of build_time_windows: no fallback
build_time_windows_nofallback(h, a) ==
  run_windows(h, a, contiguous_windows(good_mask_of(risks_of(h, a))))

build_time_windows(h, a) ==
  LET ws == run_windows(h, a, contiguous_windows(good_mask_of(risks_of(h, a))))
  IN  IF ws = <<>> THEN FallbackWindows ELSE ws

(***************************************************************************)
(* Activity filter and result list (page_explore)                          *)
(***************************************************************************)
ALL_ACTIVITIES ==
  {"Walking", "Hiking", "Running", "Cycling", "Swimming", "Museums",
   "Botanical gardens", "Farms", "Beaches", "Playgrounds", "Fitness stations",
   "Community events", "Ice skating", "Sports fields", "Parks", "Community centers",
   "Tracks", "Greenways", "Free", "Paid"}

\* variant of cycle: the cycle runs backwards, Neutral -> Exclude -> Include -> Neutral
cycle_backwards(v) == IF v = 0 THEN -1 ELSE IF v = -1 THEN 1 ELSE 0

\* _cycle: {0: 1, 1: -1, -1: 0}[v]
cycle(v) == CASE v = 0 -> 1 [] v = 1 -> -1 [] v = -1 -> 0

\* variant of tri_filter: a hit in the include set is accepted before the exclude
\* set is looked at
tri_filter_include_first(acts, tm) ==
  LET inc == {k \in DOMAIN tm : tm[k] = 1}
      exc == {k \in DOMAIN tm : tm[k] = -1}
  IN  IF inc # {} /\ (acts \cap inc) # {} THEN TRUE
      ELSE IF exc # {} /\ (acts \cap exc) # {} THEN FALSE
      ELSE inc = {}

tri_filter(acts, tm) ==
  LET inc == {k \in DOMAIN tm : tm[k] = 1}
      exc == {k \in DOMAIN tm : tm[k] = -1}
  IN  IF exc # {} /\ (acts \cap exc) # {} THEN FALSE
      ELSE IF inc # {} /\ (acts \cap inc) = {} THEN FALSE
      ELSE TRUE

\* one row of the features frame: the place row, its classification, its score
feature_row(p, i, a) ==
  LET cls == classify_feature(p.tags)
  IN  [id |-> i, distance_km |-> p.distance_km, road_distance_m |-> p.road_distance_m,
       kind |-> cls.kind, indoor |-> cls.indoor, shaded_possible |-> cls.shaded_possible,
       waterfront |-> cls.waterfront, paved |-> cls.paved, wheelchair |-> cls.wheelchair,
       is_free |-> cls.is_free, activities |-> cls.activities,
       score |-> score_feature(cls, a, p.distance_km, p.road_distance_m)]

ToggleKeys ==
  {"q_indoor", "q_shaded", "q_waterfront", "q_paved", "q_wheel", "q_free", "q_away", "q_near"}

\* the strict quick-attribute toggles and the traffic-distance preference
toggle_filter(f, tg) ==
  /\ ("q_indoor" \in tg => f.indoor)
  /\ ("q_waterfront" \in tg => f.waterfront)
  /\ ("q_wheel" \in tg => f.wheelchair)
  /\ ("q_free" \in tg => f.is_free = "True")
  /\ IF "q_away" \in tg THEN (f.road_distance_m = NoRoad \/ f.road_distance_m > 350)
     ELSE IF "q_near" \in tg
          THEN (IF f.road_distance_m = NoRoad THEN 0 ELSE f.road_distance_m) < 120
          ELSE TRUE

\* _soft_pref_bump, in tenths
soft_pref_bump(f, tg) ==
  f.score + B("q_shaded" \in tg /\ f.shaded_possible, 30)
          + B("q_paved" \in tg /\ f.paved, 30)

\* a goes before b under sort_values(["score","distance_km"], ascending=[False, True])
sort_before(a, b) ==
  a.score > b.score \/ (a.score = b.score /\ a.distance_km <= b.distance_km)

RECURSIVE insert_row(_, _)
insert_row(sorted, x) ==
  IF sorted = <<>> THEN <<x>>
  ELSE IF sort_before(sorted[Len(sorted)], x) THEN Append(sorted, x)
  ELSE Append(insert_row(SubSeq(sorted, 1, Len(sorted) - 1), x), sorted[Len(sorted)])

RECURSIVE sort_values(_)
sort_values(rows) ==
  IF rows = <<>> THEN <<>>
  ELSE insert_row(sort_values(SubSeq(rows, 1, Len(rows) - 1)), rows[Len(rows)])

\* variant of explore_results: the frame is sorted before the soft-preference bump
explore_results_sort_first(ps, a, tm, tg) ==
  LET feats  == [i \in 1..Len(ps) |-> feature_row(ps[i], i, a)]
      kept   == SelectSeq(feats, LAMBDA f : tri_filter(f.activities, tm) /\ toggle_filter(f, tg))
      sorted == sort_values(kept)
  IN  [i \in 1..Len(sorted) |-> [sorted[i] EXCEPT !.score = soft_pref_bump(sorted[i], tg)]]

\* the result list of a search: score, filter, bump, sort
explore_results(ps, a, tm, tg) ==
  LET feats    == [i \in 1..Len(ps) |-> feature_row(ps[i], i, a)]
      kept     == SelectSeq(feats, LAMBDA f : tri_filter(f.activities, tm) /\ toggle_filter(f, tg))
      bumped   == [i \in 1..Len(kept) |-> [kept[i] EXCEPT !.score = soft_pref_bump(kept[i], tg)]]
  IN  sort_values(bumped)

(***************************************************************************)
(* Community database (groups, outings, RSVPs, posts, comments)            *)
(***************************************************************************)
\* the rows of the users table; no function deletes a user
Users == {1, 2}

\* the statuses the RSVP buttons send
Statuses == {"going", "maybe", "not_going"}

\* SELECT g.* FROM groups g JOIN users u ON u.id = g.owner_id WHERE g.id = gid:
\* the rows fetched, none (the function returns None) or one
get_group(d, gid) == {g \in d.groups : g.id = gid /\ g.owner_id \in Users}

\* INSERT OR IGNORE INTO group_members, primary key (group_id, user_id)
join_group(d, gid, uid, role) ==
  IF \E m \in d.group_members : m.group_id = gid /\ m.user_id = uid
  THEN d
  ELSE [d EXCEPT !.group_members =
                   @ \cup {[group_id |-> gid, user_id |-> uid, role |-> role]}]

leave_group(d, gid, uid) ==
  [d EXCEPT !.group_members = {m \in @ : ~(m.group_id = gid /\ m.user_id = uid)}]

\* the new group gets the next AUTOINCREMENT id and its owner as first member
create_group(d, owner_id) ==
  LET gid == d.seq.groups + 1
  IN  join_group([d EXCEPT !.groups = @ \cup {[id |-> gid, owner_id |-> owner_id]},
                           !.seq.groups = gid],
                 gid, owner_id, "owner")

\* of an outing, a post and a comment the model keeps the id and the parent id, the
\* columns the DELETE statements read
create_outing(d, group_id, uid) ==
  LET oid == d.seq.outings + 1
  IN  [d EXCEPT !.outings = @ \cup {[id |-> oid, group_id |-> group_id]},
                !.seq.outings = oid]

\* variant of rsvp: INSERT OR IGNORE, the first answer of a user is kept
rsvp_or_ignore(d, outing_id, uid, status) ==
  IF \E r \in d.rsvps : r.outing_id = outing_id /\ r.user_id = uid
  THEN d
  ELSE [d EXCEPT !.rsvps =
                   @ \cup {[outing_id |-> outing_id, user_id |-> uid, status |-> status]}]

\* INSERT OR REPLACE INTO rsvps, primary key (outing_id, user_id)
rsvp(d, outing_id, uid, status) ==
  [d EXCEPT !.rsvps =
     {r \in @ : ~(r.outing_id = outing_id /\ r.user_id = uid)}
     \cup {[outing_id |-> outing_id, user_id |-> uid, status |-> status]}]

\* SELECT status, COUNT(*) ... GROUP BY status, read with counts.get(status, 0)
rsvp_counts(d, outing_id) ==
  [s \in Statuses |->
     Cardinality({r \in d.rsvps : r.outing_id = outing_id /\ r.status = s})]

create_post(d, gid, uid) ==
  LET pid == d.seq.posts + 1
  IN  [d EXCEPT !.posts = @ \cup {[id |-> pid, group_id |-> gid]},
                !.seq.posts = pid]

add_comment(d, post_id, uid) ==
  LET cid == d.seq.comments + 1
  IN  [d EXCEPT !.comments = @ \cup {[id |-> cid, post_id |-> post_id]},
                !.seq.comments = cid]

\* variant of delete_rows: the RSVPs of the group's outings are left in place
delete_rows_keeps_rsvps(d, gid) ==
  LET d1 == [d  EXCEPT !.comments =
               {c \in @ : c.post_id \notin {p.id : p \in {q \in d.posts : q.group_id = gid}}}]
      d2 == [d1 EXCEPT !.posts = {p \in @ : p.group_id # gid}]
      d4 == [d2 EXCEPT !.outings = {o \in @ : o.group_id # gid}]
      d5 == [d4 EXCEPT !.group_members = {m \in @ : m.group_id # gid}]
  IN  [d5 EXCEPT !.groups = {g \in @ : g.id # gid}]

\* the six DELETE statements of delete_group, in their order
delete_rows(d, gid) ==
  LET d1 == [d  EXCEPT !.comments =
               {c \in @ : c.post_id \notin {p.id : p \in {q \in d.posts : q.group_id = gid}}}]
      d2 == [d1 EXCEPT !.posts = {p \in @ : p.group_id # gid}]
      d3 == [d2 EXCEPT !.rsvps =
               {r \in @ : r.outing_id \notin {o.id : o \in {q \in d2.outings : q.group_id = gid}}}]
      d4 == [d3 EXCEPT !.outings = {o \in @ : o.group_id # gid}]
      d5 == [d4 EXCEPT !.group_members = {m \in @ : m.group_id # gid}]
  IN  [d5 EXCEPT !.groups = {g \in @ : g.id # gid}]

\* variant of delete_group: any requester may delete an existing group
delete_group_any_requester(d, gid, requester_id) ==
  LET g == get_group(d, gid)
  IN  IF g = {} THEN [db |-> d, ret |-> FALSE]
      ELSE [db |-> delete_rows(d, gid), ret |-> TRUE]

\* the database after the call and the value returned
delete_group(d, gid, requester_id) ==
  LET g == get_group(d, gid)
  IN  IF g = {} \/ (CHOOSE x \in g : TRUE).owner_id # requester_id
      THEN [db |-> d, ret |-> FALSE]
      ELSE [db |-> delete_rows(d, gid), ret |-> TRUE]

(***************************************************************************)
(* Inputs                                                                  *)
(***************************************************************************)
\* tag dictionaries for scoring: a category, and any of the tags that decide
\* indoor, paved, wheelchair and quiet_hint
ScoreTagMaps ==
  {[t EXCEPT !["indoor"] = i, !["surface"] = s, !["wheelchair"] = w, !["name"] = n] :
     t \in CategoryMaps, i \in {None, "yes"}, s \in {None, "asphalt"},
     w \in {None, "yes"}, n \in {None, "Riverside"}}

FeatInputs == {classify_feature(t) : t \in ScoreTagMaps}

ActiveSets == SubsetsUpTo(Sensitivities, MaxActive)

Distances == {k * DistStep : k \in 0..MaxDistSteps}

\* metres to the nearest major road: None without road data, else around each band edge
RoadDistances == {NoRoad, 0, 79, 80, 179, 180, 349, 350, 351}

FirstHour == 6
LastHour == 21
UvValues == {2, 4, 8}

HourValues == {[uvi |-> u, rain |-> r] : u \in UvValues, r \in BOOLEAN}

Rec(h, v) == [hour |-> h, uvi |-> v.uvi, rain |-> v.rain]

\* the series of the first n hours of the day, with the number of weather changes
RECURSIVE DayPrefixes(_)
DayPrefixes(n) ==
  IF n = 1 THEN {[s |-> <<Rec(FirstHour, v)>>, c |-> 0] : v \in HourValues}
  ELSE LET prev == DayPrefixes(n - 1)
           h    == FirstHour + n - 1
           last(p) == [uvi |-> p.s[n - 1].uvi, rain |-> p.s[n - 1].rain]
       IN  {[s |-> Append(p.s, Rec(h, last(p))), c |-> p.c] : p \in prev}
           \cup UNION {{[s |-> Append(p.s, Rec(h, v)), c |-> p.c + 1] :
                          v \in HourValues \ {last(p)}} :
                       p \in {q \in prev : q.c + 1 < MaxSegments}}

DaySeries == {p.s : p \in DayPrefixes(LastHour - FirstHour + 1)}

\* the three sensitivities build_time_windows reads, and one it does not
WindowActives ==
  SUBSET {"UV sensitivity", "Pollen sensitivity", "Breathing sensitivity", "Privacy"}

\* the activity sets of the kinds, with and without "Free" and "Paid"
ActivitySets ==
  {activities_of(classify_feature(t).kind, f, p) :
     t \in CategoryMaps, f \in {"True", None}, p \in {"True", None}}

TriMapOf(inc, exc) ==
  [a \in ALL_ACTIVITIES |-> IF a \in inc THEN 1 ELSE IF a \in exc THEN -1 ELSE 0]

TriMaps ==
  UNION {{TriMapOf(I, S \ I) : I \in SUBSET S} : S \in SubsetsUpTo(ALL_ACTIVITIES, MaxFiltered)}

Neutral == TriMapOf({}, {})

\* ACTIVITY_PRESETS, each applied to the neutral map
PresetMaps ==
  { Neutral,
    TriMapOf({"Walking", "Parks", "Tracks", "Swimming"}, {"Sports fields", "Playgrounds"}),
    TriMapOf({}, {"Museums", "Community centers", "Swimming"}),
    TriMapOf({"Museums", "Community centers", "Swimming"},
             {"Botanical gardens", "Parks", "Beaches"}) }

SearchTags ==
  {[EmptyTags EXCEPT !["leisure"] = v] : v \in {"park", "pitch", "track"}}

\* the places of a search: at the origin, and two beyond the 12.5 km of a zero base score
SearchPlaces ==
  {[tags |-> t, distance_km |-> d, road_distance_m |-> r] :
     t \in SearchTags, d \in {0, 2 * DistStep, 3 * DistStep}, r \in {NoRoad}}

\* fetch_places returns the places sorted by distance_km
PlaceSeqs ==
  UNION {{ps \in [1..n -> SearchPlaces] :
            \A i \in 1..n, j \in 1..n : i < j => ps[i].distance_km <= ps[j].distance_km} :
         n \in 0..MaxPlaces}

SearchActives == SUBSET {"UV sensitivity", "Accessibility"}

ToggleSets == SubsetsUpTo(ToggleKeys, MaxToggles)

(***************************************************************************)
(* Specifications                                                          *)
(***************************************************************************)
\* --- classification of one place
InitClassify ==
  /\ pc = "classify"
  /\ \E S \in SubsetsUpTo(TagKeys, MaxTags) : tags \in MapsOver(S)
  /\ feat = None
  /\ active = {} /\ distance_km = 0 /\ road_distance_m = NoRoad /\ score = None
  /\ hourly = <<>> /\ risks = None /\ good_mask = None /\ windows = None
  /\ activity_set = {} /\ tri_map = Neutral /\ passes = None
  /\ places = <<>> /\ toggles = {} /\ features = None
  /\ idx = None /\ db = EmptyDb /\ last_call = None /\ calls = <<>>

Classify ==
  /\ pc = "classify"
  /\ feat' = classify_feature(tags)
  /\ pc' = "classified"
  /\ UNCHANGED <<tags, active, distance_km, road_distance_m, score, hourly, risks,
                 good_mask, windows, activity_set, tri_map, passes, places, toggles,
                 features,
                 idx, db, last_call, calls>>

SpecClassify == InitClassify /\ [][Classify]_vars

\* --- scoring of one classified place
InitScore ==
  /\ pc = "score"
  /\ tags = EmptyTags
  /\ feat \in FeatInputs
  /\ active \in ActiveSets
  /\ distance_km \in Distances
  /\ road_distance_m \in RoadDistances
  /\ score = None
  /\ hourly = <<>> /\ risks = None /\ good_mask = None /\ windows = None
  /\ activity_set = {} /\ tri_map = Neutral /\ passes = None
  /\ places = <<>> /\ toggles = {} /\ features = None
  /\ idx = None /\ db = EmptyDb /\ last_call = None /\ calls = <<>>

Score ==
  /\ pc = "score"
  /\ score' = score_feature(feat, active, distance_km, road_distance_m)
  /\ pc' = "scored"
  /\ UNCHANGED <<tags, feat, active, distance_km, road_distance_m, hourly, risks,
                 good_mask, windows, activity_set, tri_map, passes, places, toggles,
                 features,
                 idx, db, last_call, calls>>

SpecScore == InitScore /\ [][Score]_vars

\* --- time windows of one day
InitWindowsCommon ==
  /\ pc = "windows"
  /\ tags = EmptyTags /\ feat = None
  /\ distance_km = 0 /\ road_distance_m = NoRoad /\ score = None
  /\ risks = None /\ good_mask = None /\ windows = None
  /\ activity_set = {} /\ tri_map = Neutral /\ passes = None
  /\ places = <<>> /\ toggles = {} /\ features = None
  /\ idx = None /\ db = EmptyDb /\ last_call = None /\ calls = <<>>

InitWindows ==
  /\ InitWindowsCommon
  /\ hourly \in DaySeries
  /\ active \in WindowActives

InitHour ==
  /\ InitWindowsCommon
  /\ \E h \in 0..23, u \in 0..MaxUvi, r \in BOOLEAN :
       hourly = <<[hour |-> h, uvi |-> u, rain |-> r]>>
  /\ active \in SUBSET Sensitivities

BuildTimeWindows ==
  /\ pc = "windows"
  /\ risks' = risks_of(hourly, active)
  /\ good_mask' = good_mask_of(risks')
  /\ idx' = contiguous_windows(good_mask')
  /\ windows' = build_time_windows(hourly, active)
  /\ pc' = "windowed"
  /\ UNCHANGED <<tags, feat, active, distance_km, road_distance_m, score, hourly,
                 activity_set, tri_map, passes, places, toggles, features,
                 db, last_call, calls>>

SpecWindows == InitWindows /\ [][BuildTimeWindows]_vars

SpecHour == InitHour /\ [][BuildTimeWindows]_vars

\* --- the activity filter on one place
InitFilter ==
  /\ pc = "filter"
  /\ activity_set \in ActivitySets
  /\ tri_map \in TriMaps
  /\ passes = None
  /\ tags = EmptyTags /\ feat = None
  /\ active = {} /\ distance_km = 0 /\ road_distance_m = NoRoad /\ score = None
  /\ hourly = <<>> /\ risks = None /\ good_mask = None /\ windows = None
  /\ places = <<>> /\ toggles = {} /\ features = None
  /\ idx = None /\ db = EmptyDb /\ last_call = None /\ calls = <<>>

TriFilter ==
  /\ pc = "filter"
  /\ passes' = tri_filter(activity_set, tri_map)
  /\ pc' = "filtered"
  /\ UNCHANGED <<tags, feat, active, distance_km, road_distance_m, score, hourly, risks,
                 good_mask, windows, activity_set, tri_map, places, toggles, features,
                 idx, db, last_call, calls>>

SpecFilter == InitFilter /\ [][TriFilter]_vars

\* --- one search
InitSearch ==
  /\ pc = "search"
  /\ places \in PlaceSeqs
  /\ active \in SearchActives
  /\ tri_map \in PresetMaps
  /\ toggles \in ToggleSets
  /\ features = None
  /\ tags = EmptyTags /\ feat = None
  /\ distance_km = 0 /\ road_distance_m = NoRoad /\ score = None
  /\ hourly = <<>> /\ risks = None /\ good_mask = None /\ windows = None
  /\ activity_set = {} /\ passes = None
  /\ idx = None /\ db = EmptyDb /\ last_call = None /\ calls = <<>>

Search ==
  /\ pc = "search"
  /\ features' = explore_results(places, active, tri_map, toggles)
  /\ pc' = "listed"
  /\ UNCHANGED <<tags, feat, active, distance_km, road_distance_m, score, hourly, risks,
                 good_mask, windows, activity_set, tri_map, passes, places, toggles,
                 idx, db, last_call, calls>>

SpecSearch == InitSearch /\ [][Search]_vars

\* --- contiguous_windows on a mask of its own
\* every good / bad sequence of at most MaxMaskLen hours
Masks == UNION {[1..n -> BOOLEAN] : n \in 0..MaxMaskLen}

InitMask ==
  /\ pc = "mask"
  /\ good_mask \in Masks
  /\ idx = None
  /\ tags = EmptyTags /\ feat = None
  /\ active = {} /\ distance_km = 0 /\ road_distance_m = NoRoad /\ score = None
  /\ hourly = <<>> /\ risks = None /\ windows = None
  /\ activity_set = {} /\ tri_map = Neutral /\ passes = None
  /\ places = <<>> /\ toggles = {} /\ features = None
  /\ db = EmptyDb /\ last_call = None /\ calls = <<>>

ContiguousWindows ==
  /\ pc = "mask"
  /\ idx' = contiguous_windows(good_mask)
  /\ pc' = "runs"
  /\ UNCHANGED <<tags, feat, active, distance_km, road_distance_m, score, hourly, risks,
                 good_mask, windows, activity_set, tri_map, passes, places, toggles,
                 features, db, last_call, calls>>

SpecMask == InitMask /\ [][ContiguousWindows]_vars

\* --- clicks on the activity chips
\* act_filters before the first click: all neutral (no favourites, or "Clear all"),
\* the "Gentle & Low-Impact" preset applied to it, or all include ("Select all")
ChipInits ==
  { Neutral,
    TriMapOf({"Walking", "Parks", "Tracks", "Swimming"}, {"Sports fields", "Playgrounds"}),
    TriMapOf(ALL_ACTIVITIES, {}) }

InitChips ==
  /\ pc = "chips"
  /\ tri_map \in ChipInits
  /\ calls = <<>>
  /\ tags = EmptyTags /\ feat = None
  /\ active = {} /\ distance_km = 0 /\ road_distance_m = NoRoad /\ score = None
  /\ hourly = <<>> /\ risks = None /\ good_mask = None /\ windows = None
  /\ activity_set = {} /\ passes = None
  /\ places = <<>> /\ toggles = {} /\ features = None
  /\ idx = None /\ db = EmptyDb /\ last_call = None

\* one run of the script in which the button of chip act is pressed; calls logs the
\* chip with the state read and the state written
ClickChip(act) ==
  /\ pc = "chips"
  /\ Len(calls) < MaxClicks
  /\ LET state == tri_map[act]
     IN  /\ tri_map' = [tri_map EXCEPT ![act] = cycle(state)]
         /\ calls' = Append(calls, [act |-> act, state |-> state, next |-> cycle(state)])
  /\ UNCHANGED <<pc, tags, feat, active, distance_km, road_distance_m, score, hourly,
                 risks, good_mask, windows, activity_set, passes, places, toggles,
                 features, idx, db, last_call>>

NextChips == \E act \in ALL_ACTIVITIES : ClickChip(act)

SpecChips == InitChips /\ [][NextChips]_vars

\* --- the community pages on one database
\* last_call after a call of a function other than delete_group
OtherCall == [op |-> "other"]

InitGroups ==
  /\ pc = "community"
  /\ db = EmptyDb
  /\ last_call = OtherCall
  /\ tags = EmptyTags /\ feat = None
  /\ active = {} /\ distance_km = 0 /\ road_distance_m = NoRoad /\ score = None
  /\ hourly = <<>> /\ risks = None /\ good_mask = None /\ windows = None
  /\ activity_set = {} /\ tri_map = Neutral /\ passes = None
  /\ places = <<>> /\ toggles = {} /\ features = None
  /\ idx = None /\ calls = <<>>

\* what no community function touches
NoPageState ==
  UNCHANGED <<tags, feat, active, distance_km, road_distance_m, score, hourly,
              risks, good_mask, windows, activity_set, tri_map, passes, places,
              toggles, features, idx, calls>>

\* the ids the pages show: the rows that exist
GroupIds == {g.id : g \in db.groups}
OutingIds == {o.id : o \in db.outings}
PostIds == {p.id : p \in db.posts}

\* the rows the six tables hold
RowsHeld ==
  Cardinality(db.groups) + Cardinality(db.group_members) + Cardinality(db.outings)
  + Cardinality(db.rsvps) + Cardinality(db.posts) + Cardinality(db.comments)

\* room for one more row
RoomForRow == RowsHeld < MaxRows

CreateGroup(uid) ==
  /\ pc = "community"
  /\ RowsHeld + 1 < MaxRows
  /\ LET d == create_group(db, uid)
     IN  db' = join_group(d, d.seq.groups, uid, "owner")
  /\ last_call' = OtherCall
  /\ pc' = pc
  /\ NoPageState

JoinGroup(gid, uid) ==
  /\ pc = "community"
  /\ RoomForRow
  /\ db' = join_group(db, gid, uid, "member")
  /\ last_call' = OtherCall
  /\ pc' = pc
  /\ NoPageState

LeaveGroup(gid, uid) ==
  /\ pc = "community"
  /\ db' = leave_group(db, gid, uid)
  /\ last_call' = OtherCall
  /\ pc' = pc
  /\ NoPageState

CreateOuting(gid, uid) ==
  /\ pc = "community"
  /\ RoomForRow
  /\ db' = create_outing(db, gid, uid)
  /\ last_call' = OtherCall
  /\ pc' = pc
  /\ NoPageState

Rsvp(oid, uid, status) ==
  /\ pc = "community"
  /\ RoomForRow
  /\ db' = rsvp(db, oid, uid, status)
  /\ last_call' = OtherCall
  /\ pc' = pc
  /\ NoPageState

CreatePost(gid, uid) ==
  /\ pc = "community"
  /\ RoomForRow
  /\ db' = create_post(db, gid, uid)
  /\ last_call' = OtherCall
  /\ pc' = pc
  /\ NoPageState

AddComment(pid, uid) ==
  /\ pc = "community"
  /\ RoomForRow
  /\ db' = add_comment(db, pid, uid)
  /\ last_call' = OtherCall
  /\ pc' = pc
  /\ NoPageState

\* delete_group is called with any group id, of a group that exists or not, by any
\* user; the rows of a run are created before its first delete_group call
DeleteGroup(gid, uid) ==
  /\ pc \in {"community", "deleted"}
  /\ pc' = "deleted"
  /\ LET r == delete_group(db, gid, uid)
     IN  /\ db' = r.db
         /\ last_call' = [op |-> "delete_group", gid |-> gid, requester_id |-> uid,
                          ret |-> r.ret]
  /\ NoPageState

NextGroups ==
  \E uid \in Users :
    \/ CreateGroup(uid)
    \/ \E gid \in GroupIds : JoinGroup(gid, uid)
    \/ \E gid \in GroupIds : LeaveGroup(gid, uid)
    \/ \E gid \in GroupIds : CreateOuting(gid, uid)
    \/ \E oid \in OutingIds, status \in Statuses : Rsvp(oid, uid, status)
    \/ \E gid \in GroupIds : CreatePost(gid, uid)
    \/ \E pid \in PostIds : AddComment(pid, uid)
    \/ \E gid \in 1..(db.seq.groups + 1) : DeleteGroup(gid, uid)

SpecGroups == InitGroups /\ [][NextGroups]_vars

\* --- RSVP buttons on the outings of one group
\* a group of user 1 with two outings and no answer yet
RsvpDb == create_outing(create_outing(create_group(EmptyDb, 1), 1, 1), 1, 1)

InitRsvp ==
  /\ pc = "rsvp"
  /\ db = RsvpDb
  /\ calls = <<>>
  /\ last_call = OtherCall
  /\ tags = EmptyTags /\ feat = None
  /\ active = {} /\ distance_km = 0 /\ road_distance_m = NoRoad /\ score = None
  /\ hourly = <<>> /\ risks = None /\ good_mask = None /\ windows = None
  /\ activity_set = {} /\ tri_map = Neutral /\ passes = None
  /\ places = <<>> /\ toggles = {} /\ features = None
  /\ idx = None

\* one rsvp call; calls logs its arguments
RsvpCall(oid, uid, status) ==
  /\ pc = "rsvp"
  /\ Len(calls) < MaxRsvpCalls
  /\ db' = rsvp(db, oid, uid, status)
  /\ calls' = Append(calls, [outing_id |-> oid, user_id |-> uid, status |-> status])
  /\ UNCHANGED <<pc, last_call>>
  /\ UNCHANGED <<tags, feat, active, distance_km, road_distance_m, score, hourly,
                 risks, good_mask, windows, activity_set, tri_map, passes, places,
                 toggles, features, idx>>

NextRsvp ==
  \E o \in db.outings, uid \in Users, status \in Statuses : RsvpCall(o.id, uid, status)

SpecRsvp == InitRsvp /\ [][NextRsvp]_vars

(***************************************************************************)
(* Properties                                                              *)
(***************************************************************************)

\* C1: for every tag map (the empty map and maps with unrecognised tags included)
\* classify_feature returns a kind that is not None and a pollen_risk that is one
\* of "low", "medium", "higher".
C1_KindAndPollenRisk ==
  pc = "classified" =>
    /\ feat.kind # None
    /\ feat.pollen_risk \in {"low", "medium", "higher"}

\* the empty tag map has been classified, by the else branch
C1_Witness ==
  /\ pc = "classified"
  /\ tags = EmptyTags
  /\ feat.kind = "Public place"
  /\ feat.pollen_risk = "medium"

\* the category rules in the order the specification fixes, stated on the tags alone
RuleHolds(i, t) ==
  CASE i = 1  -> t["amenity"] = "community_centre"
    [] i = 2  -> t["leisure"] = "swimming_pool"
    [] i = 3  -> t["leisure"] = "park"
    [] i = 4  -> t["leisure"] = "playground"
    [] i = 5  -> t["leisure"] = "fitness_station"
    [] i = 6  -> t["leisure"] = "track"
    [] i = 7  -> t["man_made"] = "pier" \/ t["tourism"] = "beach"
    [] i = 8  -> t["leisure"] = "pitch"
    [] i = 9  -> t["leisure"] = "recreation_ground"
    [] i = 10 -> t["leisure"] = "ice_rink"
    [] i = 11 -> t["leisure"] = "sports_centre"
    [] i = 12 -> t["highway"] = "cycleway"
    [] i = 13 -> t["tourism"] = "museum"
    [] i = 14 -> t["amenity"] = "marketplace"
    [] i = 15 -> t["amenity"] = "arts_centre"
    [] i = 16 -> t["tourism"] = "attraction"
                 /\ t["attraction"] \in {"farm", "animal_park", "botanical_garden"}
    [] i = 17 -> t["leisure"] = "garden"
                 /\ (t["garden"] \in {"botanical", "arboretum"}
                     \/ t["garden:type"] \in {"botanical", "arboretum"})
    [] i = 18 -> t["shop"] = "farm"

RuleKind(i, t) ==
  CASE i = 1  -> "Community center"
    [] i = 2  -> "Swimming (pool)"
    [] i = 3  -> "Park"
    [] i = 4  -> "Playground / fitness area"
    [] i = 5  -> "Outdoor fitness station"
    [] i = 6  -> "Running track"
    [] i = 7  -> "Boardwalk / beach / pier"
    [] i = 8  -> "Open sports field"
    [] i = 9  -> "Recreation ground"
    [] i = 10 -> "Ice rink"
    [] i = 11 -> "Sports centre"
    [] i = 12 -> "Cycleway / greenway"
    [] i = 13 -> "Museum"
    [] i = 14 -> "Marketplace"
    [] i = 15 -> "Arts centre"
    [] i = 16 -> IF t["attraction"] = "farm" THEN "Farm (attraction)"
                 ELSE IF t["attraction"] = "animal_park" THEN "Animal park"
                 ELSE "Botanical garden"
    [] i = 17 -> "Botanical garden"
    [] i = 18 -> "Farm shop"

RulesHolding(t) == {i \in 1..18 : RuleHolds(i, t)}

\* C2: a tag map that satisfies more than one category rule gets the kind of the
\* first satisfied rule in the fixed order; {amenity: community_centre,
\* leisure: park} is a "Community center".
C2_FirstRuleWins ==
  pc = "classified" /\ Cardinality(RulesHolding(tags)) > 1 =>
    \A i \in RulesHolding(tags) :
      (\A j \in RulesHolding(tags) : i <= j) => feat.kind = RuleKind(i, tags)

\* {amenity: community_centre, leisure: park} has been classified
C2_Witness ==
  /\ pc = "classified"
  /\ tags = [EmptyTags EXCEPT !["amenity"] = "community_centre", !["leisure"] = "park"]
  /\ RulesHolding(tags) = {1, 3}
  /\ feat.kind = "Community center"

\* the hours of the day some window covers (start <= hour < end)
Covered(ws) == {h \in 0..23 : \E k \in 1..Len(ws) : ws[k].start <= h /\ h < ws[k].end}

\* the hours of the series whose accumulated risk is <= 2
GoodHours == {hourly[i].hour : i \in {j \in 1..Len(hourly) : risks[j] <= 2}}

\* C3 as stated: for every series of the hours 6..21 and every sensitivity set the
\* hours covered by the returned windows are exactly the hours whose risk is <= 2.
C3_Original ==
  pc = "windowed" => Covered(windows) = GoodHours

\* C3 (amended): when at least one hour of the series is good, the hours covered by
\* the returned windows are exactly the good hours; when none is, the windows cover
\* 6..8 and 18..20, none of which is good.
C3_Coverage ==
  pc = "windowed" =>
    /\ GoodHours # {} => Covered(windows) = GoodHours
    /\ GoodHours = {} => Covered(windows) = (6..8) \cup (18..20)

\* a day with good and bad hours whose good hours form at least two runs, one of
\* them reaching the last hour
C3_Witness ==
  /\ pc = "windowed"
  /\ Len(hourly) = LastHour - FirstHour + 1
  /\ Len(windows) >= 2
  /\ windows[Len(windows)].end = LastHour + 1
  /\ \E i \in 1..Len(hourly) : risks[i] > 2
  /\ Covered(windows) = GoodHours

\* the two fixed fallback windows of the series' calendar day
HeuristicWindows ==
  << [start |-> 6,  end |-> 9,  why |-> "early morning (heuristic)"],
     [start |-> 18, end |-> 21, why |-> "evening (heuristic)"] >>

\* C4: the two fallback windows are returned if and only if no hour of the series
\* is good; UV index 8 without rain at every hour with only UV sensitivity active
\* yields exactly these two windows.
C4_FallbackIffNoGoodHour ==
  pc = "windowed" =>
    /\ (windows = HeuristicWindows) <=> (\A i \in 1..Len(hourly) : risks[i] > 2)
    /\ (active = {"UV sensitivity"}
        /\ \A i \in 1..Len(hourly) : hourly[i].uvi = 8 /\ ~hourly[i].rain)
       => windows = HeuristicWindows

\* the day of UV index 8 and no rain, with only UV sensitivity active
C4_Witness ==
  /\ pc = "windowed"
  /\ active = {"UV sensitivity"}
  /\ Len(hourly) = LastHour - FirstHour + 1
  /\ \A i \in 1..Len(hourly) : hourly[i].uvi = 8 /\ ~hourly[i].rain /\ risks[i] = 3
  /\ windows = HeuristicWindows

\* C5: for every 16-record series (hours 6..21) and every sensitivity set
\* build_time_windows returns a non-empty list of windows.
C5_NeverEmpty ==
  pc = "windowed" /\ Len(hourly) = 16 => Len(windows) >= 1

\* a day without a good hour under Pollen sensitivity: the list is the fallback's
C5_Witness ==
  /\ pc = "windowed"
  /\ Len(hourly) = 16
  /\ "Pollen sensitivity" \in active
  /\ \A i \in 1..Len(hourly) : ~good_mask[i]
  /\ Len(windows) = 2

\* the risk of one hour as the specification words it
SpecRisk(rec, a) ==
  LET u == IF "UV sensitivity" \in a
           THEN (IF rec.uvi >= 7 THEN 3 ELSE IF rec.uvi >= 4 THEN 2 ELSE 1)
           ELSE 0
      p == IF "Pollen sensitivity" \in a \/ "Breathing sensitivity" \in a
           THEN (IF rec.hour \in (5..10) \cup (16..20) THEN 2 ELSE 1)
                - (IF rec.rain THEN 1 ELSE 0)
           ELSE 0
  IN  IF u + p > 0 THEN u + p ELSE 0

\* C6: the risk of every hour record is max(0, u + p), u the UV term when UV
\* sensitivity is active, p the pollen term less the rain term when Pollen or
\* Breathing sensitivity is active (once even if both are); the hour is good iff
\* the risk is <= 2.
C6_HourRisk ==
  pc = "windowed" =>
    \A i \in 1..Len(hourly) :
      /\ risks[i] = SpecRisk(hourly[i], active)
      /\ good_mask[i] <=> (SpecRisk(hourly[i], active) <= 2)

\* a rainy peak hour of UV index 7 with UV, Pollen and Breathing sensitivity active
C6_Witness ==
  /\ pc = "windowed"
  /\ {"UV sensitivity", "Pollen sensitivity", "Breathing sensitivity"} \subseteq active
  /\ hourly[1].hour = 17 /\ hourly[1].uvi = 7 /\ hourly[1].rain
  /\ risks[1] = 4
  /\ ~good_mask[1]

IncludeSet == {k \in ALL_ACTIVITIES : tri_map[k] = 1}
ExcludeSet == {k \in ALL_ACTIVITIES : tri_map[k] = -1}

\* C7: tri_filter passes a place iff the exclude set is disjoint from its
\* activities and the include set is empty or intersects them; a place whose
\* activities intersect both sets is filtered out.
C7_ExcludeThenInclude ==
  pc = "filtered" =>
    /\ passes <=> /\ ExcludeSet \cap activity_set = {}
                  /\ (IncludeSet = {} \/ IncludeSet \cap activity_set # {})
    /\ (IncludeSet \cap activity_set # {} /\ ExcludeSet \cap activity_set # {}) => ~passes

\* a place with an included and an excluded activity has been filtered out
C7_Witness ==
  /\ pc = "filtered"
  /\ IncludeSet \cap activity_set # {}
  /\ ExcludeSet \cap activity_set # {}
  /\ passes = FALSE

\* C8: the result list of a search is in score-descending order, distance_km
\* ascending among equal scores, the score being the bumped one that is shown.
C8_ResultOrder ==
  pc = "listed" =>
    \A i \in 1..(Len(features) - 1) :
      \/ features[i].score > features[i + 1].score
      \/ /\ features[i].score = features[i + 1].score
         /\ features[i].distance_km <= features[i + 1].distance_km

\* a list whose order differs from the order of arrival, with a bumped entry and
\* two entries of equal score told apart by their distance
C8_Witness ==
  /\ pc = "listed"
  /\ toggles # {}
  /\ Len(features) = 3
  /\ features[1].id > features[2].id
  /\ features[1].score > features[2].score
  /\ features[2].score = features[3].score
  /\ features[2].distance_km < features[3].distance_km
  /\ \E i \in 1..3 :
       features[i].score
         > score_feature(classify_feature(places[features[i].id].tags), active,
                         features[i].distance_km, features[i].road_distance_m)

\* C9: for fixed attributes, active set and road distance, score_feature does not
\* increase with distance_km.
C9_ScoreMonotone ==
  pc = "scored" =>
    \A d \in Distances :
      /\ distance_km <= d => score >= score_feature(feat, active, d, road_distance_m)
      /\ d <= distance_km => score_feature(feat, active, d, road_distance_m) >= score

\* a place nearer than 12.5 km scored strictly above the same place one step
\* farther, which lies at the zero floor of the base score
C9_Witness ==
  /\ pc = "scored"
  /\ distance_km = DistStep
  /\ base_score(distance_km) > 0
  /\ base_score(2 * DistStep) = 0
  /\ score > score_feature(feat, active, 2 * DistStep, road_distance_m)
  /\ score_feature(feat, active, 2 * DistStep, road_distance_m)
       = score_feature(feat, active, 3 * DistStep, road_distance_m)

\* what activating the sensitivities a adds to the score of the place of the state
Gain(a) ==
  score_feature(feat, a, distance_km, road_distance_m)
  - score_feature(feat, {}, distance_km, road_distance_m)

\* the sum of the gains of the sensitivities of S, each taken alone
RECURSIVE GainSum(_)
GainSum(S) ==
  IF S = {} THEN 0
  ELSE LET x == CHOOSE y \in S : TRUE IN Gain({x}) + GainSum(S \ {x})

\* C10: the adjustments are additive: score(active) - score({}) is the sum over
\* the active sensitivities s of score({s}) - score({}).
C10_Additive ==
  pc = "scored" =>
    score - score_feature(feat, {}, distance_km, road_distance_m)
      = GainSum(active)

\* UV and Pollen sensitivity both active on an indoor place, each with its own gain
C10_Witness ==
  /\ pc = "scored"
  /\ active = {"UV sensitivity", "Pollen sensitivity"}
  /\ feat.indoor
  /\ Gain({"UV sensitivity"}) = 280
  /\ Gain({"Pollen sensitivity"}) = 340
  /\ score - score_feature(feat, {}, distance_km, road_distance_m) = 620

\* the adjustment table of the five attribute-driven sensitivities, in points
TableEntries(s, f) ==
  IF s = "UV sensitivity" THEN
    B(f.indoor, 28) + B(f.shaded_possible, 12) + B(f.waterfront, 6)
    + B(f.kind \in {"Open sports field", "Running track"}, -5)
  ELSE IF s = "Pollen sensitivity" THEN
    B(f.indoor, 26) + B(f.waterfront, 12)
    + B(f.pollen_risk = "higher", -18) + B(f.pollen_risk = "low", 8)
  ELSE IF s = "Breathing sensitivity" THEN
    B(f.indoor, 12) + B(f.waterfront, 8) + B(f.paved, 6)
    + B(f.kind = "Open sports field", -4)
  ELSE IF s = "Low impact" THEN
    B(f.paved, 10) + B(f.indoor, 6)
    + B(f.kind \in {"Running track", "Swimming (pool)", "Cycleway / greenway"}, 10)
    + B(f.kind \in {"Open sports field", "Playground / fitness area"}, -4)
  ELSE IF s = "Accessibility" THEN
    B(f.wheelchair, 20) + B(f.paved, 8)
    + B(f.kind \in {"Community center", "Sports centre", "Swimming (pool)"}, 6)
  ELSE 0

AttributeDriven ==
  {"UV sensitivity", "Pollen sensitivity", "Breathing sensitivity", "Low impact",
   "Accessibility"}

\* C11: with exactly one of UV, Pollen, Breathing, Low impact or Accessibility
\* active, the score exceeds the score with no active sensitivity by the sum of
\* that sensitivity's table entries whose condition holds for the place.
C11_TableAlone ==
  \A s \in AttributeDriven :
    (pc = "scored" /\ active = {s}) =>
      score - score_feature(feat, {}, distance_km, road_distance_m)
        = 10 * TableEntries(s, feat)

\* Low impact alone on an unpaved outdoor playground: 4 points below the base
C11_Witness ==
  /\ pc = "scored"
  /\ active = {"Low impact"}
  /\ feat.kind = "Playground / fitness area"
  /\ ~feat.paved /\ ~feat.indoor
  /\ score - score_feature(feat, {}, distance_km, road_distance_m) = -40

RoadDriven == {"Smog sensitivity", "Noise sensitivity", "Privacy"}

\* what is left of the three road-driven sensitivities when every road-distance
\* term is skipped, in points
NoRoadTerms(f, a) ==
    B("Noise sensitivity" \in a, B(f.quiet_hint, 4))
  + B("Privacy" \in a,
      B(f.quiet_hint, 6)
      + B(f.kind \in {"Boardwalk / beach / pier", "Playground / fitness area"}, -4))

\* C12: with no road distance, Smog sensitivity adds nothing to the score, Noise
\* sensitivity adds its quiet_hint term only and Privacy its quiet_hint and kind
\* terms only, whatever the attributes and the other active sensitivities.
C12_NoRoadSkipped ==
  (pc = "scored" /\ road_distance_m = NoRoad) =>
    score - score_feature(feat, active \ RoadDriven, distance_km, road_distance_m)
      = 10 * NoRoadTerms(feat, active)

\* Smog and Noise sensitivity active on a quiet place without road distance:
\* the score moves by the 4 points of the quiet hint alone
C12_Witness ==
  /\ pc = "scored"
  /\ road_distance_m = NoRoad
  /\ active = {"Smog sensitivity", "Noise sensitivity"}
  /\ feat.quiet_hint
  /\ score - score_feature(feat, {}, distance_km, road_distance_m) = 40

\* the Smog bands of the adjustment table, in points (r in metres)
SmogBand(r) ==
  IF r < 80 THEN -24
  ELSE IF 80 <= r /\ r < 180 THEN -16
  ELSE IF 180 <= r /\ r < 350 THEN -8
  ELSE 4

\* C13: with Smog sensitivity active and a road distance r, Smog sensitivity moves
\* the score by -24 if r < 80, -16 if 80 <= r < 180, -8 if 180 <= r < 350 and
\* +4 if r >= 350.
C13_SmogBands ==
  (pc = "scored" /\ "Smog sensitivity" \in active /\ road_distance_m # NoRoad) =>
    score - score_feature(feat, active \ {"Smog sensitivity"}, distance_km,
                          road_distance_m)
      = 10 * SmogBand(road_distance_m)

\* Smog sensitivity alone at exactly 350 m from the road: 4 points above the base,
\* while 349 m, 180 m and 80 m give -8, -8 and -16
C13_Witness ==
  /\ pc = "scored"
  /\ active = {"Smog sensitivity"}
  /\ road_distance_m = 350
  /\ score - score_feature(feat, {}, distance_km, road_distance_m) = 40
  /\ score_feature(feat, active, distance_km, 349) - score = -120
  /\ score_feature(feat, active, distance_km, 180)
       = score_feature(feat, active, distance_km, 349)
  /\ score_feature(feat, active, distance_km, 80) - score = -200

BonusKinds ==
  {"Park", "Cycleway / greenway", "Running track", "Boardwalk / beach / pier",
   "Recreation ground", "Outdoor fitness station"}

\* max(0, 100 - 8 * distance_km) rounded to one decimal plus the 6 points of the
\* kinds of BonusKinds, in tenths (d in 1/100 km)
BaseAndBonus(f, d) ==
  round1(IF 10000 - 8 * d > 0 THEN 10000 - 8 * d ELSE 0)
  + (IF f.kind \in BonusKinds THEN 60 ELSE 0)

\* C14: with no active sensitivity the score is max(0, 100 - 8 * distance_km)
\* rounded to one decimal, plus 6 exactly when the kind is Park, Cycleway /
\* greenway, Running track, Boardwalk / beach / pier, Recreation ground or Outdoor
\* fitness station, and it is never negative; with a non-empty active set the
\* score is that same value plus the adjustments of the active sensitivities, so
\* the 6 points are added once.
C14_BaseAndBonus ==
  pc = "scored" =>
    /\ active = {} => (score = BaseAndBonus(feat, distance_km) /\ score >= 0)
    /\ score = BaseAndBonus(feat, distance_km)
               + 10 * sensitivity_adj(feat, active, road_distance_m)

\* a recreation ground 6.87 km away with no active sensitivity scores 45.0 + 6,
\* and the same place beyond the 12.5 km floor scores the 6 points alone
C14_Witness ==
  /\ pc = "scored"
  /\ active = {}
  /\ feat.kind = "Recreation ground"
  /\ distance_km = DistStep
  /\ score = round1(10000 - 8 * DistStep) + 60
  /\ score_feature(feat, active, 2 * DistStep, road_distance_m) = 60

\* the tags of the community-centre scenario
CommunityCentreTags ==
  [EmptyTags EXCEPT !["amenity"] = "community_centre", !["wheelchair"] = "yes"]

\* the community-centre scenario has been scored
CommunityCentreScored ==
  /\ pc = "scored"
  /\ feat = classify_feature(CommunityCentreTags)
  /\ distance_km = 0
  /\ road_distance_m = NoRoad
  /\ active = {"Pollen sensitivity", "Accessibility"}

\* C15 as stated: the tags {amenity: community_centre, wheelchair: yes}, classified
\* and scored at distance 0 with no road distance and Pollen sensitivity and
\* Accessibility active, score 152.0.
C15_Original == CommunityCentreScored => score = 1520

\* C15: the same scenario scores 160.0: base 100, Pollen sensitivity +26 (indoor)
\* and +8 (pollen risk low), Accessibility +20 (wheelchair) and +6 (kind).
C15_CommunityCentre == CommunityCentreScored => score = 1600

\* the scenario is scored, with the attributes the community-centre rule sets
C15_Witness ==
  /\ CommunityCentreScored
  /\ feat.kind = "Community center"
  /\ feat.indoor /\ feat.wheelchair /\ ~feat.paved
  /\ feat.pollen_risk = "low"
  /\ score = 1600

\* the tags of the pitch scenario: leisure = pitch and nothing else
PitchTags == [EmptyTags EXCEPT !["leisure"] = "pitch"]

PitchClassified == pc = "classified" /\ tags = PitchTags

\* C16 as stated: the tags {leisure: pitch} classify to kind "Open sports field"
\* with is_paid and is_free null and the activities {"Sports fields"}.
C16_Original ==
  PitchClassified =>
    /\ feat.kind = "Open sports field"
    /\ feat.is_paid = None /\ feat.is_free = None
    /\ feat.activities = {"Sports fields"}

\* C16: the tags {leisure: pitch} classify to kind "Open sports field" with
\* is_paid and is_free null and the activities Walking, Hiking, Parks, Playgrounds
\* and Sports fields, the labels shared by the park-like kinds.
C16_Pitch ==
  PitchClassified =>
    /\ feat.kind = "Open sports field"
    /\ feat.is_paid = None /\ feat.is_free = None
    /\ feat.activities = {"Walking", "Hiking", "Parks", "Playgrounds", "Sports fields"}

\* the pitch is classified and carries both "Walking" and "Parks"
C16_Witness ==
  /\ PitchClassified
  /\ feat.kind = "Open sports field"
  /\ {"Walking", "Parks", "Sports fields"} \subseteq feat.activities
  /\ "Free" \notin feat.activities /\ "Paid" \notin feat.activities

\* C17: the activities of a classified place contain "Free" iff is_free is true
\* and "Paid" iff is_paid is true.
C17_FreePaidLabels ==
  pc = "classified" =>
    /\ "Free" \in feat.activities <=> feat.is_free = "True"
    /\ "Paid" \in feat.activities <=> feat.is_paid = "True"

\* a place with fee = yes: is_paid true and is_free false, labelled "Paid" and
\* not "Free"
C17_Witness ==
  /\ pc = "classified"
  /\ tags["fee"] = "yes"
  /\ feat.is_paid = "True" /\ feat.is_free = "False"
  /\ "Paid" \in feat.activities /\ "Free" \notin feat.activities

\* C18 as stated: is_paid and is_free follow from the fee and access tags compared
\* as exact strings: is_paid is true iff fee = "yes", false iff fee = "no", else
\* null; is_free is true iff fee = "no" or access is "public" or "yes", else false
\* iff fee = "yes", else null.
C18_Original ==
  pc = "classified" =>
    /\ feat.is_paid = (IF tags["fee"] = "yes" THEN "True"
                       ELSE IF tags["fee"] = "no" THEN "False" ELSE None)
    /\ feat.is_free = (IF tags["fee"] = "no" \/ tags["access"] \in {"public", "yes"}
                       THEN "True"
                       ELSE IF tags["fee"] = "yes" THEN "False" ELSE None)

\* the spellings of "yes" among the tag values
SpelledYes == {"yes", "Yes"}

\* C18: is_paid and is_free follow from the fee and access tags compared without
\* regard to letter case: is_paid is true iff fee is "yes", false iff fee is "no",
\* else null; is_free is true iff fee is "no" or access is "public" or "yes", else
\* false iff fee is "yes", else null; each is a function of the two tags alone.
C18_FeeFlags ==
  pc = "classified" =>
    /\ feat.is_paid = (IF tags["fee"] \in SpelledYes THEN "True"
                       ELSE IF tags["fee"] = "no" THEN "False" ELSE None)
    /\ feat.is_free = (IF tags["fee"] = "no"
                          \/ tags["access"] \in {"public"} \cup SpelledYes
                       THEN "True"
                       ELSE IF tags["fee"] \in SpelledYes THEN "False" ELSE None)

\* a place tagged fee = Yes is paid and not free
C18_Witness ==
  /\ pc = "classified"
  /\ tags["fee"] = "Yes" /\ tags["access"] = None
  /\ feat.is_paid = "True" /\ feat.is_free = "False"

\* C19: quiet_hint of a classified place is true iff the access tag is absent or
\* equal to "yes" and the name tag is absent, whichever category rule matched.
C19_QuietHint ==
  pc = "classified" =>
    (feat.quiet_hint
       <=> ((tags["access"] = None \/ tags["access"] = "yes") /\ tags["name"] = None))

\* an unnamed park with access = yes: the park rule matched and quiet_hint is true
C19_Witness ==
  /\ pc = "classified"
  /\ tags["leisure"] = "park" /\ feat.kind = "Park"
  /\ tags["access"] = "yes" /\ tags["name"] = None
  /\ feat.quiet_hint

\* the raw tags of the else branch, in the order in which they are tried
RawKindKeys == <<"leisure", "amenity", "tourism", "man_made">>

NonEmpty(v) == v # None /\ v # ""

\* C20: when no category rule holds for the tags, the kind is the value of the
\* first of leisure, amenity, tourism, man_made that has a non-empty value, and
\* "Public place" when none of them has one.
C20_FallbackKind ==
  (pc = "classified" /\ RulesHolding(tags) = {}) =>
    /\ (\A i \in 1..Len(RawKindKeys) : ~NonEmpty(tags[RawKindKeys[i]]))
         => feat.kind = "Public place"
    /\ \A i \in 1..Len(RawKindKeys) :
         (NonEmpty(tags[RawKindKeys[i]])
            /\ \A j \in 1..(i - 1) : ~NonEmpty(tags[RawKindKeys[j]]))
           => feat.kind = tags[RawKindKeys[i]]

\* an empty leisure value next to amenity = cafe and tourism = hotel: no rule
\* holds and the kind is the amenity value
C20_Witness ==
  /\ pc = "classified"
  /\ RulesHolding(tags) = {}
  /\ tags["leisure"] = "" /\ tags["amenity"] = "cafe" /\ tags["tourism"] = "hotel"
  /\ feat.kind = "cafe"

\* C21: every returned window, fallback windows included, has end > start; a
\* window of a run of good hours starts at the run's first good hour (the hour
\* before it is not good) and ends one hour after the run's last good hour (the
\* hour at which it ends is not good).
C21_WindowBounds ==
  pc = "windowed" =>
    \A k \in 1..Len(windows) :
      /\ windows[k].end > windows[k].start
      /\ GoodHours # {} =>
           /\ \A h \in windows[k].start..(windows[k].end - 1) : h \in GoodHours
           /\ (windows[k].start - 1) \notin GoodHours
           /\ windows[k].end \notin GoodHours

\* UV index 2 and no rain all day with UV and Pollen sensitivity active: the good
\* hours are 11..15 and 21, so the second window is the single hour 21:00-22:00
C21_Witness ==
  /\ pc = "windowed"
  /\ Len(hourly) = LastHour - FirstHour + 1
  /\ GoodHours = (11..15) \cup {21}
  /\ Len(windows) = 2
  /\ windows[1].start = 11 /\ windows[1].end = 16
  /\ windows[2].start = 21 /\ windows[2].end = 22

\* s1 ++ sep ++ s2 ++ ... : ", ".join(parts)
RECURSIVE Join(_, _)
Join(parts, sep) ==
  IF Len(parts) = 0 THEN ""
  ELSE IF Len(parts) = 1 THEN parts[1]
  ELSE parts[1] \o sep \o Join(Tail(parts), sep)

\* the reason of a window from start to end, as the reason rule words it
ReasonOf(start, end) ==
  LET rainy == \E i \in 1..Len(hourly) :
                 start <= hourly[i].hour /\ hourly[i].hour < end /\ hourly[i].rain
      uv    == IF "UV sensitivity" \in active THEN <<"lower UV">> ELSE <<>>
      pol   == IF "Pollen sensitivity" \in active \/ "Breathing sensitivity" \in active
               THEN <<"lower pollen (est.)" \o (IF rainy THEN " after rain" ELSE "")>>
               ELSE <<>>
  IN  IF uv \o pol = <<>> THEN "comfortable" ELSE Join(uv \o pol, ", ")

\* C22: the reason of every window of a run of good hours is "lower UV" if UV
\* sensitivity is active and "lower pollen (est.)" if Pollen or Breathing
\* sensitivity is active, with " after rain" appended iff an hour of the window has
\* the rain flag, joined with ", "; it is "comfortable" iff none of the three is
\* active.
C22_Reason ==
  (pc = "windowed" /\ GoodHours # {}) =>
    \A k \in 1..Len(windows) :
      /\ windows[k].why = ReasonOf(windows[k].start, windows[k].end)
      /\ windows[k].why = "comfortable"
           <=> active \cap {"UV sensitivity", "Pollen sensitivity",
                            "Breathing sensitivity"} = {}

\* a day whose rain starts in the evening, UV and Pollen sensitivity active: one
\* dry window and one window after rain
C22_Witness ==
  /\ pc = "windowed"
  /\ GoodHours # {}
  /\ Len(windows) = 2
  /\ windows[1].why = "lower UV, lower pollen (est.)"
  /\ windows[2].why = "lower UV, lower pollen (est.) after rain"

\* C23: contiguous_windows returns pairs (s, e) with s <= e in strictly increasing
\* order; every index of s..e is good, the index before s and the index after e
\* (if any) are bad, every good index lies in exactly one pair, a mask without a
\* good index yields the empty list and a run that reaches the last index is
\* closed at that index.
C23_Runs ==
  pc = "runs" =>
    LET n == Len(good_mask)
        In(i, k) == idx[k][1] <= i /\ i <= idx[k][2]
    IN  /\ \A k \in 1..Len(idx) :
             /\ 1 <= idx[k][1] /\ idx[k][1] <= idx[k][2] /\ idx[k][2] <= n
             /\ \A i \in idx[k][1]..idx[k][2] : good_mask[i]
             /\ idx[k][1] > 1 => ~good_mask[idx[k][1] - 1]
             /\ idx[k][2] < n => ~good_mask[idx[k][2] + 1]
             /\ k < Len(idx) => idx[k][2] < idx[k + 1][1]
        /\ \A i \in 1..n :
             good_mask[i] => Cardinality({k \in 1..Len(idx) : In(i, k)}) = 1
        /\ (\A i \in 1..n : ~good_mask[i]) => idx = <<>>
        /\ (n > 0 /\ good_mask[n]) => idx[Len(idx)][2] = n

\* bad, good, good, bad, good: the runs 2..3 and 5..5, the second closed at the
\* last index
C23_Witness ==
  /\ pc = "runs"
  /\ good_mask = <<FALSE, TRUE, TRUE, FALSE, TRUE>>
  /\ idx = << <<2, 3>>, <<5, 5>> >>

\* Neutral (0) -> Include (1) -> Exclude (-1) -> Neutral (0)
CycleSuccessor(v) == IF v = 0 THEN 1 ELSE IF v = 1 THEN -1 ELSE 0

\* a step moves exactly one chip to its successor on the cycle and leaves the
\* other chips alone
OneChipCycles ==
  \E act \in ALL_ACTIVITIES :
    /\ tri_map'[act] = CycleSuccessor(tri_map[act])
    /\ \A other \in ALL_ACTIVITIES \ {act} : tri_map'[other] = tri_map[other]

\* the last three clicks went to one chip and left it in the state it had before
ThreeClicksRestore ==
  LET n == Len(calls)
  IN  (n >= 3 /\ calls[n].act = calls[n - 1].act /\ calls[n].act = calls[n - 2].act)
        => /\ tri_map[calls[n].act] = calls[n - 2].state
           /\ calls[n].next = calls[n - 2].state

\* C24: each click on a chip moves that chip along Neutral -> Include -> Exclude ->
\* Neutral and leaves every other chip unchanged; every chip state stays in
\* {-1, 0, 1}; three consecutive clicks on one chip restore its state.
C24_ChipCycle ==
  /\ [][OneChipCycles]_vars
  /\ []((\A a \in ALL_ACTIVITIES : tri_map[a] \in {-1, 0, 1}) /\ ThreeClicksRestore)

\* three clicks on the excluded chip "Playgrounds" of the preset: neutral, include
\* and back to exclude, with the included chip "Walking" untouched
C24_Witness ==
  /\ pc = "chips"
  /\ Len(calls) = 3
  /\ \A i \in 1..3 : calls[i].act = "Playgrounds"
  /\ calls[1].state = -1 /\ calls[2].state = 0 /\ calls[3].state = 1
  /\ tri_map["Playgrounds"] = -1
  /\ tri_map["Walking"] = 1

\* the step is a call of delete_group
DeleteCalled == last_call'.op = "delete_group"

\* C25: delete_group returns True only when the group exists and the requester is
\* its owner; when the group does not exist or the requester is not its owner it
\* returns False and leaves every table as it was.
C25_DeleteGuard ==
  [][DeleteCalled =>
       LET owned == \E g \in db.groups :
                      g.id = last_call'.gid /\ g.owner_id = last_call'.requester_id
       IN  /\ last_call'.ret => owned
           /\ ~owned => (~last_call'.ret /\ db' = db)]_vars

\* a user who does not own an existing group asked for it to be deleted: False is
\* returned and the group, its owner's membership and its outing are still there
C25_Witness ==
  /\ last_call.op = "delete_group"
  /\ ~last_call.ret
  /\ \E g \in db.groups : g.id = last_call.gid /\ g.owner_id # last_call.requester_id
  /\ \E m \in db.group_members : m.group_id = last_call.gid /\ m.role = "owner"
  /\ \E o \in db.outings : o.group_id = last_call.gid

\* the rows of table t of database d that belong to group gid
RowsOf(d, t, gid) ==
  CASE t = "groups"        -> {g \in d.groups : g.id = gid}
    [] t = "group_members" -> {m \in d.group_members : m.group_id = gid}
    [] t = "outings"       -> {o \in d.outings : o.group_id = gid}
    [] t = "posts"         -> {p \in d.posts : p.group_id = gid}
    [] t = "rsvps"         -> {r \in d.rsvps :
                                 \E o \in d.outings : o.id = r.outing_id /\ o.group_id = gid}
    [] t = "comments"      -> {c \in d.comments :
                                 \E p \in d.posts : p.id = c.post_id /\ p.group_id = gid}

Tables == {"groups", "group_members", "outings", "rsvps", "posts", "comments"}

\* C26: after a successful delete_group(gid) no row of groups, group_members,
\* outings or posts refers to gid, no rsvps row refers to an outing the group had
\* and no comments row to a post it had, and the rows that did not belong to the
\* group are all still there, unchanged.
C26_DeleteCascade ==
  [][(DeleteCalled /\ last_call'.ret) =>
       LET gid == last_call'.gid
       IN  /\ \A g \in db'.groups : g.id # gid
           /\ \A m \in db'.group_members : m.group_id # gid
           /\ \A o \in db'.outings : o.group_id # gid
           /\ \A p \in db'.posts : p.group_id # gid
           /\ \A r \in db'.rsvps : r \notin RowsOf(db, "rsvps", gid)
           /\ \A c \in db'.comments : c \notin RowsOf(db, "comments", gid)
           /\ \A t \in Tables : db'[t] = db[t] \ RowsOf(db, t, gid)]_vars

\* group 1 and its only outing are gone after its owner deleted it, while group 2
\* and the membership of its owner are still there
C26_Witness ==
  /\ last_call.op = "delete_group"
  /\ last_call.ret /\ last_call.gid = 1
  /\ db.seq.outings = 1 /\ db.outings = {}
  /\ db.rsvps = {}
  /\ \E g \in db.groups : g.id = 2
  /\ \E m \in db.group_members : m.group_id = 2 /\ m.role = "owner"

\* the positions in the log of the rsvp calls of user uid for outing oid
CallsOf(oid, uid) ==
  {i \in 1..Len(calls) : calls[i].outing_id = oid /\ calls[i].user_id = uid}

\* the largest element of a non-empty set of numbers
Last(S) == CHOOSE i \in S : \A j \in S : j <= i

RECURSIVE SumCounts(_, _)
SumCounts(counts, S) ==
  IF S = {} THEN 0
  ELSE LET s == CHOOSE x \in S : TRUE IN counts[s] + SumCounts(counts, S \ {s})

\* C27: after any sequence of rsvp calls each (outing, user) pair has at most one
\* rsvps row, the row carries the status of the pair's most recent call, and the
\* counts of rsvp_counts(outing) add up to the number of users who have answered
\* for that outing.
C27_LatestRsvp ==
  pc = "rsvp" =>
    \A o \in db.outings :
      /\ \A uid \in Users :
           LET rows == {r \in db.rsvps : r.outing_id = o.id /\ r.user_id = uid}
           IN  /\ Cardinality(rows) <= 1
               /\ CallsOf(o.id, uid) = {} => rows = {}
               /\ CallsOf(o.id, uid) # {} =>
                    rows = {[outing_id |-> o.id, user_id |-> uid,
                             status |-> calls[Last(CallsOf(o.id, uid))].status]}
      /\ SumCounts(rsvp_counts(db, o.id), Statuses)
           = Cardinality({uid \in Users : CallsOf(o.id, uid) # {}})

\* user 1 answered "going" and then "maybe" for outing 1 and user 2 "going": one
\* "maybe", one "going"
C27_Witness ==
  /\ pc = "rsvp"
  /\ calls = << [outing_id |-> 1, user_id |-> 1, status |-> "going"],
               [outing_id |-> 1, user_id |-> 2, status |-> "going"],
               [outing_id |-> 1, user_id |-> 1, status |-> "maybe"] >>
  /\ rsvp_counts(db, 1) = [s \in Statuses |-> IF s = "not_going" THEN 0 ELSE 1]
  /\ rsvp_counts(db, 2) = [s \in Statuses |-> 0]

\* C28: a place classified as indoor has pollen risk "low" and is neither shaded
\* nor waterfront; a place classified as waterfront is paved and of kind
\* "Boardwalk / beach / pier".
C28_IndoorWaterfront ==
  pc = "classified" =>
    /\ feat.indoor =>
         (feat.pollen_risk = "low" /\ ~feat.shaded_possible /\ ~feat.waterfront)
    /\ feat.waterfront => (feat.paved /\ feat.kind = "Boardwalk / beach / pier")

\* a covered swimming pool: indoor, with pollen risk "low", not shaded, not waterfront
C28_Witness ==
  /\ pc = "classified"
  /\ tags["leisure"] = "swimming_pool" /\ tags["covered"] = "yes"
  /\ feat.kind = "Swimming (pool)"
  /\ feat.indoor /\ feat.pollen_risk = "low"
  /\ ~feat.shaded_possible /\ ~feat.waterfront

\* C29: when UV sensitivity is not active, every hour of a series of the hours
\* 6..21 is good, so exactly one window is returned, from 06:00 to 22:00, and never
\* the fallback windows.
C29_NoUvWholeDay ==
  (pc = "windowed" /\ "UV sensitivity" \notin active
     /\ Len(hourly) = LastHour - FirstHour + 1) =>
    /\ \A i \in 1..Len(hourly) : good_mask[i]
    /\ Len(windows) = 1
    /\ windows[1].start = FirstHour /\ windows[1].end = LastHour + 1
    /\ windows # HeuristicWindows

\* Pollen sensitivity alone on a dry day of high UV index: the risk is 2 in the
\* morning and evening hours and 1 in between, and the one window is 06:00-22:00
C29_Witness ==
  /\ pc = "windowed"
  /\ active = {"Pollen sensitivity"}
  /\ Len(hourly) = LastHour - FirstHour + 1
  /\ \A i \in 1..Len(hourly) : hourly[i].uvi = 8 /\ ~hourly[i].rain
  /\ risks[1] = 2 /\ risks[7] = 1
  /\ Len(windows) = 1
  /\ windows[1].start = 6 /\ windows[1].end = 22
  /\ windows[1].why = "lower pollen (est.)"

\* the score of the state's place with the sensitivities a at road distance r, less
\* its score with no sensitivity
GainAt(a, r) ==
  score_feature(feat, a, distance_km, r) - score_feature(feat, {}, distance_km, r)

\* the quiet_hint and kind terms of Privacy, in tenths
PrivacyOtherTerms ==
  (IF feat.quiet_hint THEN 60 ELSE 0)
  - (IF feat.kind \in {"Boardwalk / beach / pier", "Playground / fitness area"}
     THEN 40 ELSE 0)

\* C30: Privacy adds its road bonus of 10 points iff the road distance is known and
\* strictly greater than 350 m; at exactly 350 m Smog and Noise sensitivity give
\* their far-from-road bonuses (+4 and +6) and Privacy gives no road bonus.
C30_PrivacyBoundary ==
  pc = "scored" =>
    /\ "Privacy" \in active =>
         score - score_feature(feat, active \ {"Privacy"}, distance_km, road_distance_m)
           = PrivacyOtherTerms
             + (IF road_distance_m # NoRoad /\ road_distance_m > 350 THEN 100 ELSE 0)
    /\ road_distance_m = 350 =>
         /\ GainAt({"Smog sensitivity"}, 350) = 40
         /\ GainAt({"Noise sensitivity"}, 350) = 60 + (IF feat.quiet_hint THEN 40 ELSE 0)
         /\ GainAt({"Privacy"}, 350) = PrivacyOtherTerms

\* Privacy and Smog sensitivity active at exactly 350 m: Smog adds 4 points and
\* Privacy no road bonus, while one metre farther Privacy adds 10
C30_Witness ==
  /\ pc = "scored"
  /\ active = {"Privacy", "Smog sensitivity"}
  /\ road_distance_m = 350
  /\ ~feat.quiet_hint
  /\ feat.kind \notin {"Boardwalk / beach / pier", "Playground / fitness area"}
  /\ score - score_feature(feat, {}, distance_km, road_distance_m) = 40
  /\ GainAt({"Privacy"}, 351) = 100
====
